---- MODULE Spec2Model ----
(***************************************************************************)
(* A model of the quote manager of src/dom-manipulation/script.js: the     *)
(* revision of the script that carries the server sync (lines 454-1195).   *)
(* The state is the script's module-level state (quotes, syncInProgress,   *)
(* syncInterval), the 'quotes' slot of localStorage, the browser's timers  *)
(* and clock, and one record per invocation of syncWithServer holding     *)
(* that invocation's position and locals.                                  *)
(*                                                                         *)
(* Representation.  A text is a sequence of one-character strings, so that *)
(* the capitalisation and the '.' suffix of line 517 are computed.  A      *)
(* category is a string; toLowerCase is a table over the categories in     *)
(* use.  lastModified is an instant of the clock, 0 standing for an absent *)
(* (falsy) field: toISOString yields fixed-width strings, whose string     *)
(* order is the order of the instants, and an absent field compares as     *)
(* the code's  (x || '')  and  undefined > s  do, that is as the least     *)
(* value.  An absent id is NoId, an absent source is NoSource.  The        *)
(* message text of a conflict-log entry is a rendering of its type and     *)
(* quote and is not kept.                                                  *)
(*                                                                         *)
(* JSON text (the persisted slot, an exported file, a document picked for  *)
(* an import) is kept as what JSON.parse makes of it; JSON.stringify and   *)
(* JSON.parse are computed on that form.  Three specifications share the   *)
(* actions: Spec, the loaded page with its triggers and timers; StoreSpec, *)
(* the page from its load with the operations on the quotes; FileSpec,     *)
(* export and import on given collections.  MergeSpec applies the merge to *)
(* given snapshots.  LiveSpec is Spec with the requests that are issued    *)
(* being answered or failing.                                              *)
(***************************************************************************)
EXTENDS Integers, Sequences, FiniteSets, TLC

VARIABLES
    quotes,          \* the module-level array            (line 454)
    stored,          \* localStorage's 'quotes' slot       (lines 464-474)
    syncInProgress,  \* the re-entrancy guard              (line 496)
    syncInterval,    \* the handle startPeriodicSync keeps (line 497)
    timers,          \* the interval timers the browser holds
    initialPending,  \* the setTimeout of lines 1189-1191 has not fired yet
    now,             \* the clock read by Date.now() and new Date()
    adds,            \* additions the user has made (addQuote, an import,
                     \*   the demo data)
    page,            \* the DOMContentLoaded handler: not run yet, run, or
                     \*   left by an error
    notice,          \* the messages the handler that ran last has shown
    file,            \* the file exportToJsonFile has written
    cyc,             \* the invocations of syncWithServer: for each, its
                     \*   position, its locals, and what it did
    net,             \* the requests sent and not yet answered
    mLocal, mRemote, \* resolveConflicts applied to given snapshots:
    mPc, mRes, mRes2 \*   the inputs, the position, the two results

vars == <<quotes, stored, syncInProgress, syncInterval, timers, initialPending, now, adds, cyc, net,
          page, notice, file, mLocal, mRemote, mPc, mRes, mRes2>>

progVars == <<quotes, stored, syncInProgress, syncInterval, timers, initialPending, now, adds, cyc, net,
              page, notice, file>>

mergeVars == <<mLocal, mRemote, mPc, mRes, mRes2>>

-----------------------------------------------------------------------------
(* Bounds of the model. *)

MaxPending == 2      \* invocations of syncWithServer not yet forgotten
MaxTime == 1         \* instants of the clock after the start
MaxTimers == 2       \* interval timers active at a time
MaxAdds == 1         \* quotes the user adds
MaxLocalLen == 2     \* length of a local snapshot given to the merge
MaxRemoteLen == 2    \* length of a remote snapshot given to the merge
MaxFileLen == 2      \* length of a collection that is exported

-----------------------------------------------------------------------------
(* Values. *)

NoHandle == 0
NoId == [pfx |-> "none", n |-> 0, r |-> 0]
NoSource == "undefined"
NoStamp == 0

LocalId(t) == [pfx |-> "local", n |-> t, r |-> 0]
ServerId(n) == [pfx |-> "server", n |-> n, r |-> 0]

Quote(text, category, id, lastModified, source) ==
    [text |-> text, category |-> category, id |-> id,
     lastModified |-> lastModified, source |-> source]

\* JSON text as JSON.parse sees it: text that does not parse, a value that is
\* no array, or an array of elements.  An element is null or an object; of
\* an object the text and the category are kept with their type, and an id,
\* a lastModified or a source is absent where the object has none.
JsonString(v) == [type |-> "string", v |-> v]
JsonNumber(v) == [type |-> "number", v |-> v]
NoTextField == [type |-> "undefined", v |-> <<>>]
NoCategoryField == [type |-> "undefined", v |-> ""]
Object(text, category, id, lastModified, source) ==
    [isNull |-> FALSE, text |-> text, category |-> category, id |-> id,
     lastModified |-> lastModified, source |-> source]
Null == [Object(NoTextField, NoCategoryField, NoId, NoStamp, NoSource)
            EXCEPT !.isNull = TRUE]
Array(elems) == [wellFormed |-> TRUE, isArray |-> TRUE, elems |-> elems]
NotAnArray == [wellFormed |-> TRUE, isArray |-> FALSE, elems |-> <<>>]
Unparsable == [wellFormed |-> FALSE, isArray |-> FALSE, elems |-> <<>>]

\* JSON.stringify of the quotes (lines 465 and 856): a property that is
\* undefined is left out.
stringify(qs) ==
    Array([i \in 1..Len(qs) |->
              Object(JsonString(qs[i].text), JsonString(qs[i].category),
                     qs[i].id, qs[i].lastModified, qs[i].source)])
\* The objects JSON.parse yields for an array (lines 472 and 874).
parsed(doc) ==
    [i \in 1..Len(doc.elems) |->
        Quote(doc.elems[i].text.v, doc.elems[i].category.v, doc.elems[i].id,
              doc.elems[i].lastModified, doc.elems[i].source)]

\* No file written, and the file exportToJsonFile writes.
NoFile == [present |-> FALSE, doc |-> Unparsable]
File(doc) == [present |-> TRUE, doc |-> doc]

\* What showSuccessMessage and showErrorMessage are called with.
NoNotice == <<>>
Message(kind, what, n) == [kind |-> kind, what |-> what, n |-> n]

\* localStorage.getItem('quotes') returns null.
NoItem == [present |-> FALSE, value |-> Unparsable]
Item(doc) == [present |-> TRUE, value |-> doc]

toUpperCase(ch) ==
    CASE ch = "a" -> "A"
      [] ch = "b" -> "B"
      [] OTHER -> ch

toLowerCase(category) ==
    CASE category = "Wisdom" -> "wisdom"
      [] category = "Technology" -> "technology"
      [] category = "Life" -> "life"
      [] category = "Inspiration" -> "inspiration"
      [] category = "Growth" -> "growth"
      [] OTHER -> category

Min(S) == CHOOSE x \in S : \A y \in S : x <= y

SeqsUpTo(S, n) == UNION {[1..k -> S] : k \in 0..n}

-----------------------------------------------------------------------------
(* resolveConflicts, lines 569-606. *)

\* The predicate of both find calls: lines 575-577 and 591-593.
sameQuote_anyCategory(a, b) == a.text = b.text
sameQuote(a, b) == a.text = b.text /\ a.category = b.category

\* Array.prototype.find: the first element satisfying the predicate, as its
\* index; 0 when there is none (find returns undefined).
find(arr, q) ==
    LET hits == {i \in 1..Len(arr) : sameQuote(arr[i], q)}
    IN  IF hits = {} THEN 0 ELSE Min(hits)

\* Line 595: serverQuote.lastModified > (localQuote.lastModified || '').
serverIsNewer_orTied(serverQuote, localQuote) ==
    serverQuote.lastModified >= localQuote.lastModified
serverIsNewer_reversed(serverQuote, localQuote) ==
    serverQuote.lastModified < localQuote.lastModified
serverIsNewer(serverQuote, localQuote) ==
    serverQuote.lastModified > localQuote.lastModified

\* The forEach of lines 574-587, from element k on.
RECURSIVE addMissing(_, _, _, _)
addMissing(localQuotes, serverQuotes, k, acc) ==
    IF k > Len(serverQuotes) THEN acc
    ELSE LET serverQuote == serverQuotes[k]
             existingQuote == find(localQuotes, serverQuote)
         IN  addMissing(localQuotes, serverQuotes, k + 1,
                 IF existingQuote = 0
                 THEN [mergedQuotes |-> Append(acc.mergedQuotes, serverQuote),
                       conflictLog |-> Append(acc.conflictLog,
                           [type |-> "added", quote |-> serverQuote])]
                 ELSE acc)

\* The forEach of lines 590-603, from index k on.
RECURSIVE updateExisting(_, _, _, _)
updateExisting(localQuotes, serverQuotes, k, acc) ==
    IF k > Len(localQuotes) THEN acc
    ELSE LET localQuote == localQuotes[k]
             j == find(serverQuotes, localQuote)
         IN  updateExisting(localQuotes, serverQuotes, k + 1,
                 IF j # 0 /\ serverIsNewer(serverQuotes[j], localQuote)
                 THEN [mergedQuotes |->
                           [acc.mergedQuotes EXCEPT ![k] = serverQuotes[j]],
                       conflictLog |-> Append(acc.conflictLog,
                           [type |-> "updated", quote |-> serverQuotes[j]])]
                 ELSE acc)

\* Lines 573-605: the additions are logged by the first forEach, the updates
\* by the second.
resolveConflicts_updatesFirst(localQuotes, serverQuotes) ==
    addMissing(localQuotes, serverQuotes, 1,
        updateExisting(localQuotes, serverQuotes, 1,
            [mergedQuotes |-> localQuotes, conflictLog |-> <<>>]))
resolveConflicts(localQuotes, serverQuotes) ==
    updateExisting(localQuotes, serverQuotes, 1,
        addMissing(localQuotes, serverQuotes, 1,
            [mergedQuotes |-> localQuotes, conflictLog |-> <<>>]))

-----------------------------------------------------------------------------
(* The merge on given snapshots: every pair of snapshots within the bounds *)
(* is an initial state; the merge is applied to it, and then applied again *)
(* to its own result and the same remote snapshot.                         *)

MergeText == <<"A", ".">>
MergeCategories == {"Wisdom", "wisdom", "Technology"}
\* An absent lastModified, an earlier instant and a later one: the merge
\* compares the stamps of two records at a time.
MergeStamps == {NoStamp, NoStamp + 1, NoStamp + 2}

LocalRecords ==
    {Quote(MergeText, c, LocalId(1), t, "local") :
        c \in MergeCategories, t \in MergeStamps}
RemoteRecords ==
    {Quote(MergeText, c, ServerId(1), t, "server") :
        c \in MergeCategories, t \in MergeStamps}

NoResult == [mergedQuotes |-> <<>>, conflictLog |-> <<>>]

ProgIdle ==
    /\ quotes = <<>>
    /\ stored = NoItem
    /\ syncInProgress = FALSE
    /\ syncInterval = NoHandle
    /\ timers = {}
    /\ initialPending = FALSE
    /\ now = 1
    /\ adds = 0
    /\ cyc = <<>>
    /\ net = {}
    /\ page = "ready"
    /\ notice = NoNotice
    /\ file = NoFile

MergeInit ==
    /\ ProgIdle
    /\ mLocal \in SeqsUpTo(LocalRecords, MaxLocalLen)
    /\ mRemote \in SeqsUpTo(RemoteRecords, MaxRemoteLen)
    /\ mPc = "input"
    /\ mRes = NoResult
    /\ mRes2 = NoResult

CallResolve ==
    /\ mPc = "input"
    /\ mRes' = resolveConflicts(mLocal, mRemote)
    /\ mPc' = "merged"
    /\ UNCHANGED <<mLocal, mRemote, mRes2, progVars>>

CallResolveAgain ==
    /\ mPc = "merged"
    /\ mRes2' = resolveConflicts(mRes.mergedQuotes, mRemote)
    /\ mPc' = "remerged"
    /\ UNCHANGED <<mLocal, mRemote, mRes, progVars>>

MergeNext == CallResolve \/ CallResolveAgain

MergeSpec == MergeInit /\ [][MergeNext]_vars

-----------------------------------------------------------------------------
(* The program. *)

\* Lines 454-461: the built-in quotes carry a text and a category only.
DefaultQuotes ==
    << Quote(<<"T", "b", ".">>, "Innovation", NoId, NoStamp, NoSource),
       Quote(<<"L", "i", ".">>, "Attitude", NoId, NoStamp, NoSource),
       Quote(<<"T", "o", ".">>, "Passion", NoId, NoStamp, NoSource) >>

\* Line 518: the categories given to the fetched records, by index.
ServerCategories == <<"Wisdom", "Technology", "Life", "Inspiration", "Growth">>
\* Line 516: slice(0, 5).
SliceEnd == 5

\* What the user types into the form.
UserTexts == {<<"A", ".", " ">>, <<" ">>}
UserCategories == {"Wisdom", " "}

\* Lines 1026-1027: trim, computed on a text and, for the categories in use,
\* by a table.
RECURSIVE trimStart(_)
trimStart(text) ==
    IF text # <<>> /\ Head(text) = " " THEN trimStart(Tail(text)) ELSE text
RECURSIVE trimEnd(_)
trimEnd(text) ==
    IF text # <<>> /\ text[Len(text)] = " "
    THEN trimEnd(SubSeq(text, 1, Len(text) - 1))
    ELSE text
trim(text) == trimEnd(trimStart(text))
trimCategory(category) ==
    CASE category = " " -> ""
      [] OTHER -> category

\* Line 1030: the validation of addQuote.
isBlank_never(text, category) == FALSE
isBlank(text, category) == text = <<>> \/ category = ""

\* Lines 743-758: the demo records, stamped with the current time.
DemoId(n) == [pfx |-> "server_demo", n |-> n, r |-> 0]
demoQuotes(t) ==
    << Quote(<<"I", "n", ".">>, "Leadership", DemoId(1), t, "server"),
       Quote(<<"T", "f", ".">>, "Dreams", DemoId(2), t, "server") >>

\* Lines 879-883: the elements an import keeps.
isValid(e) ==
    /\ e.text.type = "string" /\ e.text.v # <<>>
    /\ e.category.type = "string" /\ e.category.v # ""
\* Line 879 reads a property of each element: of null it raises a TypeError.
filterRaises(doc) == \E i \in 1..Len(doc.elems) : doc.elems[i].isNull
\* Lines 883-888: an id, a lastModified and a source are given to the
\* elements that have none.  Date.now() is t; r stands for the value of
\* Math.random(), which is taken to differ from call to call.
ImportedId(t, r) == [pfx |-> "imported", n |-> t, r |-> r]
importedQuote_regenerating(e, t, r) ==
    Quote(e.text.v, e.category.v, ImportedId(t, r), t, "imported")
importedQuote(e, t, r) ==
    Quote(e.text.v, e.category.v,
          IF e.id = NoId THEN ImportedId(t, r) ELSE e.id,
          IF e.lastModified = NoStamp THEN t ELSE e.lastModified,
          IF e.source = NoSource THEN "imported" ELSE e.source)
validQuotes(doc, t, r) ==
    LET kept == SelectSeq(doc.elems, isValid)
    IN  [i \in 1..Len(kept) |-> importedQuote(kept[i], t, r + i)]

\* The documents the user picks for an import, besides the file an export
\* has written: text that is no JSON, an object, an empty array, an array
\* with a text-only element before a valid one, an array of invalid elements
\* only, an array with a null before a valid element, and an array of one
\* record that carries an id, a later lastModified and a source.
Documents ==
    { Unparsable,
      NotAnArray,
      Array(<<>>),
      Array(<<Object(JsonString(<<"o">>), NoCategoryField, NoId, NoStamp, NoSource),
              Object(JsonString(<<"B">>), JsonString("Y"), NoId, NoStamp, NoSource)>>),
      Array(<<Object(JsonString(<<>>), JsonString("Y"), NoId, NoStamp, NoSource),
              Object(JsonNumber(<<"5">>), JsonString("Y"), NoId, NoStamp, NoSource)>>),
      Array(<<Null,
              Object(JsonString(<<"B">>), JsonString("Y"), NoId, NoStamp, NoSource)>>),
      Array(<<Object(JsonString(<<"B", ".">>), JsonString("Wisdom"), ServerId(2),
                     NoStamp + 2, "server")>>) }

\* Lines 468-474: loadQuotes.  A slot that is absent leaves the quotes as
\* they are; otherwise line 471 empties them before line 472 parses the slot
\* and spreads the value, either of which may raise.
loadRaises(item) ==
    item.present /\ ~(item.value.wellFormed /\ item.value.isArray)
loadQuotes(item, qs) ==
    IF ~item.present THEN qs
    ELSE IF loadRaises(item) THEN <<>>
    ELSE parsed(item.value)

\* The bodies the endpoint may answer with.  A post without a title makes
\* line 517 raise a TypeError, as does a body that is no array.
Post(id, title) == [id |-> id, title |-> title, titled |-> TRUE]
Untitled(id) == [id |-> id, title |-> <<>>, titled |-> FALSE]
Bodies ==
    { [isArray |-> FALSE, posts |-> <<>>],
      [isArray |-> TRUE, posts |-> <<>>],
      [isArray |-> TRUE, posts |-> <<Post(2, <<"b">>), Untitled(3)>>],
      [isArray |-> TRUE, posts |-> <<Post(1, <<"a">>), Post(2, <<>>), Post(3, <<"b">>),
                                     Post(4, <<"b">>), Post(5, <<"b">>), Untitled(6)>>] }

\* Where a fault may be raised in a cycle, by the line that raises it, each
\* with whether the notification of the catch clause (line 658) raises too.
\* Line 613 is outside the try block: no catch clause runs for it.  The
\* two array statements of lines 631-632 raise nothing.
InTry(lines) == {<<"none", FALSE>>} \cup (lines \X BOOLEAN)
StartFaults == InTry({"snapshot617"}) \cup {<<"status613", FALSE>>}
MergeFaults == InTry({"merge628", "save635", "ui638"})
EmptyFaults == InTry({"status653"})
PushFaults == InTry({"alert651"})

\* Lines 464-466: saveQuotes.
saveQuotes_skipped(qs) == stored
saveQuotes(qs) == Item(stringify(qs))

\* Lines 617-621: the local snapshot.
snapshot_asIs(qs, t) == qs
snapshot(qs, t) ==
    [i \in 1..Len(qs) |->
        [qs[i] EXCEPT !.lastModified = IF @ = NoStamp THEN t ELSE @,
                      !.source = IF @ = NoSource THEN "local" ELSE @]]

\* Line 517: charAt(0).toUpperCase() + slice(1) + '.'.
quoteText(title) ==
    (IF title = <<>> THEN <<>> ELSE <<toUpperCase(Head(title))>> \o Tail(title))
        \o <<".">>

\* Lines 516-522: the first five posts as quotes.
sliced(posts) ==
    SubSeq(posts, 1, IF Len(posts) < SliceEnd THEN Len(posts) ELSE SliceEnd)
transformRaises(body) ==
    \/ ~body.isArray
    \/ \E i \in 1..Len(sliced(body.posts)) : ~sliced(body.posts)[i].titled
simulatedQuotes(body, t) ==
    [i \in 1..Len(sliced(body.posts)) |->
        Quote(quoteText(body.posts[i].title),
              ServerCategories[((i - 1) % Len(ServerCategories)) + 1],
              ServerId(body.posts[i].id), t, "server")]

\* Line 549: what postDataToServer puts into the request.
isPushed_all(q) == TRUE
isPushed(q) == q.source = NoSource \/ q.source # "server"
pushPayload(qs) == SelectSeq(qs, isPushed)

\* The requests: lines 508 and 543-553.
GetRequest(c) == [method |-> "GET", cycle |-> c, quotes |-> <<>>]
PostRequest(c, qs) == [method |-> "POST", cycle |-> c, quotes |-> pushPayload(qs)]

\* An invocation of syncWithServer: its position, its locals (localQuotes,
\* serverQuotes, mergedQuotes), whether it holds the guard, the steps it has
\* completed, the last status it showed, how its fetch failed, how many
\* quotes it fetched, where a fault was raised and how its push ended.
NewCycle ==
    [pc |-> "dropped", held |-> FALSE, localQuotes |-> <<>>,
     serverQuotes |-> <<>>,
     mergedQuotes |-> <<>>, steps |-> <<>>, status |-> "none",
     fetchFail |-> "none", fault |-> "none", fetched |-> 0,
     pushed |-> "none"]
Free == [NewCycle EXCEPT !.pc = "free"]

\* What an invocation that has returned did is of no account to the events
\* that follow its return: they keep none of it.
forget(rec) == IF rec.pc \in {"done", "dropped", "free"} THEN Free ELSE rec
earlier == [c \in DOMAIN cyc |-> forget(cyc[c])]
FreeSlots == {c \in DOMAIN cyc : earlier[c].pc = "free"}

\* Lines 656-661: the catch clause, whose own status notification may raise
\* in turn, and the finally clause.
caught(rec, f, handlerRaises) ==
    [rec EXCEPT !.pc = "done", !.held = FALSE, !.fault = f,
                !.localQuotes = <<>>, !.mergedQuotes = <<>>,
                !.status = IF handlerRaises THEN @ ELSE "failed"]
\* Lines 659-661: the finally clause after a try block that ended normally.
finished(rec) ==
    [rec EXCEPT !.pc = "done", !.held = FALSE, !.localQuotes = <<>>,
                !.mergedQuotes = <<>>]

\* Line 626: an empty fetch stands for a server that is unavailable.
serverAvailable_always(serverQuotes) == TRUE
serverAvailable(serverQuotes) == Len(serverQuotes) > 0

\* Lines 648-661, entered when postDataToServer has returned: its result is
\* not looked at.
pushReturned(rec, outcome, fault) ==
    IF fault[1] = "alert651"
    THEN caught([rec EXCEPT !.pushed = outcome], fault[1], fault[2])
    ELSE finished([rec EXCEPT !.pushed = outcome])
\* Lines 555-565: a response that is not ok, and an error that the catch
\* clause of postDataToServer takes, make it return false.
failedPush_rethrows(rec, outcome, fault) ==
    caught([rec EXCEPT !.pushed = outcome], "none", fault[2])
failedPush(rec, outcome, fault) == pushReturned(rec, outcome, fault)

\* Line 610: the guard.
guardBlocks_never == FALSE
guardBlocks == syncInProgress

\* syncWithServer from its call to its first suspension, lines 609-624 and
\* 504-508.
syncWithServer ==
    LET c == Min(FreeSlots)
        started == [NewCycle EXCEPT !.pc = "awaitFetch", !.held = TRUE,
                                    !.status = "syncing"]
    IN  IF guardBlocks
        THEN /\ cyc' = [earlier EXCEPT ![c] = NewCycle]
             /\ UNCHANGED <<quotes, stored, syncInProgress, net>>
        ELSE \E fault \in StartFaults :
             LET f == fault[1]
                 h == fault[2]
             IN  CASE f = "status613" ->
                        \* raised outside the try block: nothing releases
                        \* the guard
                        /\ syncInProgress' = TRUE
                        /\ cyc' = [earlier EXCEPT ![c] =
                               [started EXCEPT !.pc = "raised", !.status = "none",
                                               !.fault = f]]
                        /\ UNCHANGED <<quotes, stored, net>>
                   [] f = "snapshot617" ->
                        /\ syncInProgress' = FALSE
                        /\ cyc' = [earlier EXCEPT ![c] = caught(started, f, h)]
                        /\ UNCHANGED <<quotes, stored, net>>
                   [] OTHER ->
                        /\ syncInProgress' = TRUE
                        /\ cyc' = [earlier EXCEPT ![c] =
                               [started EXCEPT
                                   !.localQuotes = snapshot(quotes, now)]]
                        /\ net' = net \cup {GetRequest(c)}
                        /\ UNCHANGED <<quotes, stored>>

\* Lines 626-661, entered when fetchQuotesFromServer has returned.
afterFetch(c, serverQuotes, fetchFail) ==
    LET rec == [cyc[c] EXCEPT !.steps = Append(@, "fetch"), !.fetchFail = fetchFail,
                              !.fetched = Len(serverQuotes),
                              !.serverQuotes = serverQuotes]
        res == resolveConflicts(rec.localQuotes, serverQuotes)
        merged == res.mergedQuotes
        resolved == IF Len(res.conflictLog) > 0 THEN "resolved" ELSE "noConflicts"
        answered == net \ {GetRequest(c)}
    IN  IF serverAvailable(serverQuotes)
        THEN \E fault \in MergeFaults :
             LET f == fault[1]
                 h == fault[2]
             IN  CASE f = "merge628" ->
                        /\ cyc' = [earlier EXCEPT ![c] = caught(rec, f, h)]
                        /\ syncInProgress' = FALSE
                        /\ net' = answered
                        /\ UNCHANGED <<quotes, stored>>
                   [] f = "save635" ->
                        /\ quotes' = merged
                        /\ cyc' = [earlier EXCEPT ![c] =
                               caught([rec EXCEPT !.steps = Append(@, "merge")],
                                      f, h)]
                        /\ syncInProgress' = FALSE
                        /\ net' = answered
                        /\ UNCHANGED stored
                   [] f = "ui638" ->
                        /\ quotes' = merged
                        /\ stored' = saveQuotes(merged)
                        /\ cyc' = [earlier EXCEPT ![c] =
                               caught([rec EXCEPT
                                          !.steps = @ \o <<"merge", "commit">>],
                                      f, h)]
                        /\ syncInProgress' = FALSE
                        /\ net' = answered
                   [] OTHER ->
                        /\ quotes' = merged
                        /\ stored' = saveQuotes(merged)
                        /\ net' = answered \cup {PostRequest(c, merged)}
                        /\ cyc' = [earlier EXCEPT ![c] =
                               [rec EXCEPT
                                   !.pc = "awaitPush",
                                   !.steps = @ \o <<"merge", "commit", "push">>,
                                   !.status = resolved,
                                   !.mergedQuotes = merged]]
                        /\ UNCHANGED syncInProgress
        ELSE \E fault \in EmptyFaults :
             /\ cyc' = [earlier EXCEPT ![c] =
                    IF fault[1] = "status653" THEN caught(rec, fault[1], fault[2])
                    ELSE finished([rec EXCEPT !.status = "unavailable"])]
             /\ syncInProgress' = FALSE
             /\ net' = answered
             /\ UNCHANGED <<quotes, stored>>

\* Lines 526-529: the catch clause of fetchQuotesFromServer returns [].
failedFetch_rethrows(c, fail) ==
    /\ cyc' = [earlier EXCEPT ![c] =
           caught([@ EXCEPT !.steps = Append(@, "fetch"), !.fetchFail = fail],
                  "none", FALSE)]
    /\ syncInProgress' = FALSE
    /\ net' = net \ {GetRequest(c)}
    /\ UNCHANGED <<quotes, stored>>
failedFetch(c, fail) == afterFetch(c, <<>>, fail)

-----------------------------------------------------------------------------
(* The events. *)

Init ==
    /\ quotes = DefaultQuotes
    /\ stored = NoItem
    /\ syncInProgress = FALSE
    /\ syncInterval = NoHandle
    /\ timers = {}
    /\ initialPending = TRUE
    /\ now = 1
    /\ adds = 0
    /\ cyc = [c \in 1..MaxPending |-> Free]
    /\ net = {}
    /\ page = "ready"
    /\ notice = NoNotice
    /\ file = NoFile
    /\ mLocal = <<>>
    /\ mRemote = <<>>
    /\ mPc = "input"
    /\ mRes = NoResult
    /\ mRes2 = NoResult

\* Lines 737-739.
manualSync ==
    /\ page = "ready"
    /\ FreeSlots # {}
    /\ syncWithServer
    /\ UNCHANGED <<syncInterval, timers, initialPending, now, adds,
                   mergeVars, page, file>>
    /\ notice' = NoNotice

\* Line 724: an interval timer calls syncQuotes.
TimerFires ==
    /\ FreeSlots # {}
    /\ timers # {}
    /\ syncWithServer
    /\ UNCHANGED <<syncInterval, timers, initialPending, now, adds,
                   mergeVars, page, file>>
    /\ notice' = NoNotice

\* Lines 1189-1191: the delayed first sync.
InitialSyncFires ==
    /\ initialPending
    /\ FreeSlots # {}
    /\ initialPending' = FALSE
    /\ syncWithServer
    /\ UNCHANGED <<syncInterval, timers, now, adds, mergeVars, page, file>>
    /\ notice' = NoNotice

\* Lines 508-511: the GET is answered or fails.
FetchSettles ==
    \E c \in DOMAIN cyc :
        /\ cyc[c].pc = "awaitFetch"
        /\ \/ /\ cyc' = [earlier EXCEPT ![c].pc = "awaitJson"]
              /\ UNCHANGED <<quotes, stored, syncInProgress, net>>
           \/ \E fail \in {"transport", "http"} : failedFetch(c, fail)
        /\ UNCHANGED <<syncInterval, timers, initialPending, now,
                       adds, mergeVars, page, file>>
        /\ notice' = NoNotice

\* Lines 513-529: the body is decoded, or is not.
JsonSettles ==
    \E c \in DOMAIN cyc :
        /\ cyc[c].pc = "awaitJson"
        /\ \/ failedFetch(c, "decode")
           \/ \E body \in Bodies :
                  IF transformRaises(body)
                  THEN failedFetch(c, "transform")
                  ELSE afterFetch(c, simulatedQuotes(body, now), "none")
        /\ UNCHANGED <<syncInterval, timers, initialPending, now,
                       adds, mergeVars, page, file>>
        /\ notice' = NoNotice

\* Lines 555-565 and 651-661: the POST is answered or fails.
PushSettles ==
    \E c \in DOMAIN cyc :
        /\ cyc[c].pc = "awaitPush"
        /\ \E fault \in PushFaults, outcome \in {"ok", "http", "transport"} :
               cyc' = [earlier EXCEPT ![c] =
                          IF outcome = "ok" THEN pushReturned(@, outcome, fault)
                          ELSE failedPush(@, outcome, fault)]
        /\ net' = {r \in net : ~(r.method = "POST" /\ r.cycle = c)}
        /\ syncInProgress' = FALSE
        /\ UNCHANGED <<quotes, stored, syncInterval, timers, initialPending, now, adds, mergeVars, page, file>>
        /\ notice' = NoNotice

\* Lines 722-726.  setInterval returns a handle that no active timer has.
startPeriodicSync_replacing ==
    /\ LET handle == Min({n \in 1..MaxTimers : n \notin timers \ {syncInterval}})
       IN  /\ syncInterval' = handle
           /\ timers' = (timers \ {syncInterval}) \cup {handle}
    /\ cyc' = earlier
    /\ UNCHANGED <<quotes, stored, syncInProgress, initialPending,
                   now, adds, net, mergeVars, page, file>>
    /\ notice' = NoNotice
startPeriodicSync ==
    /\ Cardinality(timers) < MaxTimers
    /\ LET handle == Min({n \in 1..MaxTimers : n \notin timers})
       IN  /\ syncInterval' = handle
           /\ timers' = timers \cup {handle}
    /\ cyc' = earlier
    /\ UNCHANGED <<quotes, stored, syncInProgress, initialPending,
                   now, adds, net, mergeVars, page, file>>
    /\ notice' = NoNotice

\* Lines 729-734.
stopPeriodicSync ==
    /\ IF syncInterval # NoHandle
       THEN /\ timers' = timers \ {syncInterval}
            /\ syncInterval' = NoHandle
       ELSE UNCHANGED <<timers, syncInterval>>
    /\ cyc' = earlier
    /\ UNCHANGED <<quotes, stored, syncInProgress, initialPending,
                   now, adds, net, mergeVars, page, file>>
    /\ notice' = NoNotice

\* Lines 1022-1078.
addQuoteWith(rawText, rawCategory) ==
    LET trimmedText == trim(rawText)
        trimmedCategory == trimCategory(rawCategory)
        newQuote == Quote(trimmedText, trimmedCategory, LocalId(now), now, "local")
    IN  /\ page = "ready"
        /\ IF isBlank(trimmedText, trimmedCategory)
           THEN /\ notice' = NoNotice
                /\ UNCHANGED <<quotes, stored, adds>>
           ELSE /\ adds < MaxAdds
                /\ quotes' = Append(quotes, newQuote)
                /\ stored' = saveQuotes(Append(quotes, newQuote))
                /\ adds' = adds + 1
                /\ notice' = <<Message("success", "added", 1)>>
        /\ cyc' = earlier
        /\ UNCHANGED <<syncInProgress, syncInterval, timers, initialPending, now, net,
                       mergeVars, page, file>>
addQuote ==
    \E rawText \in UserTexts, rawCategory \in UserCategories :
        addQuoteWith(rawText, rawCategory)

\* Lines 871-918: the onload handler of the FileReader, given the text of
\* the file.
onload(doc) ==
    LET valid == validQuotes(doc, now, Len(quotes))
        skipped == Len(doc.elems) - Len(valid)
    IN  /\ page = "ready"
        /\ IF ~doc.wellFormed \/ (doc.isArray /\ filterRaises(doc))
           THEN /\ notice' = <<Message("error", "unreadable", 0)>>
                /\ UNCHANGED <<quotes, stored, adds>>
           ELSE IF ~doc.isArray
           THEN /\ notice' = <<Message("error", "noArray", 0)>>
                /\ UNCHANGED <<quotes, stored, adds>>
           ELSE IF Len(valid) = 0
           THEN /\ notice' = <<Message("error", "noValidQuotes", 0)>>
                /\ UNCHANGED <<quotes, stored, adds>>
           ELSE /\ adds < MaxAdds
                /\ quotes' = quotes \o valid
                /\ stored' = saveQuotes(quotes \o valid)
                /\ adds' = adds + 1
                /\ notice' = <<Message("success", "imported", Len(valid))>> \o
                       (IF skipped > 0
                        THEN <<Message("error", "skipped", skipped)>>
                        ELSE <<>>)
        /\ cyc' = earlier
        /\ UNCHANGED <<syncInProgress, syncInterval, timers, initialPending, now, net,
                       mergeVars, page, file>>
\* Lines 870-925.
importFromJsonFile ==
    \E doc \in Documents \cup {file.doc} : onload(doc)

\* Lines 855-867.
exportToJsonFile ==
    /\ page = "ready"
    /\ file' = File(stringify(quotes))
    /\ notice' = <<Message("success", "exported", 0)>>
    /\ cyc' = earlier
    /\ UNCHANGED <<quotes, stored, syncInProgress, syncInterval, timers, initialPending,
                   now, adds, net, mergeVars, page>>

\* Lines 742-765.
addDemoServerData ==
    /\ page = "ready"
    /\ adds < MaxAdds
    /\ quotes' = quotes \o demoQuotes(now)
    /\ stored' = saveQuotes(quotes \o demoQuotes(now))
    /\ adds' = adds + 1
    /\ notice' = NoNotice
    /\ cyc' = earlier
    /\ UNCHANGED <<syncInProgress, syncInterval, timers, initialPending, now, net,
                   mergeVars, page, file>>

\* Lines 1120-1195: the DOMContentLoaded handler.  When loadQuotes raises,
\* nothing of the handler after line 1122 runs: no form, no listener, no
\* first sync.
DOMContentLoaded ==
    /\ page = "loading"
    /\ quotes' = loadQuotes(stored, quotes)
    /\ IF loadRaises(stored)
       THEN /\ page' = "aborted"
            /\ UNCHANGED initialPending
       ELSE /\ page' = "ready"
            /\ initialPending' = TRUE
    /\ notice' = NoNotice
    /\ cyc' = earlier
    /\ UNCHANGED <<stored, syncInProgress, syncInterval, timers, now, adds, net,
                   mergeVars, file>>

\* Time passes.
Tick ==
    /\ now <= MaxTime
    /\ now' = now + 1
    /\ cyc' = earlier
    /\ UNCHANGED <<quotes, stored, syncInProgress, syncInterval, timers,
                   initialPending, adds, net, mergeVars, page, file>>
    /\ notice' = NoNotice

Next ==
    \/ manualSync
    \/ TimerFires
    \/ InitialSyncFires
    \/ FetchSettles
    \/ JsonSettles
    \/ PushSettles
    \/ startPeriodicSync
    \/ stopPeriodicSync
    \/ addQuote
    \/ Tick

Spec == Init /\ [][Next]_vars

\* The requests that are issued are answered or fail: the await of lines
\* 508, 513 and 648 is resumed.
Fairness ==
    /\ WF_vars(FetchSettles)
    /\ WF_vars(JsonSettles)
    /\ WF_vars(PushSettles)
LiveSpec == Spec /\ Fairness

-----------------------------------------------------------------------------
(* The page from the moment the script has been evaluated, with what the   *)
(* 'quotes' slot may hold then, and with the operations on the quotes: the *)
(* form, the import, the demo data, and the cycle of the delayed first     *)
(* sync, during which and around which they are used.                      *)

\* What the slot holds when the page is opened: nothing, text that is no
\* JSON, a JSON value that is no array, or a saved array.
InitialSlots == {NoItem, Item(Unparsable), Item(NotAnArray), Item(Array(<<>>))}

Evaluated ==
    /\ quotes = DefaultQuotes
    /\ syncInProgress = FALSE
    /\ syncInterval = NoHandle
    /\ timers = {}
    /\ initialPending = FALSE
    /\ adds = 0
    /\ cyc = [c \in 1..MaxPending |-> Free]
    /\ net = {}
    /\ page = "loading"
    /\ notice = NoNotice

StoreInit ==
    /\ Evaluated
    /\ stored \in InitialSlots
    /\ now = 1
    /\ file = NoFile
    /\ mLocal = <<>>
    /\ mRemote = <<>>
    /\ mPc = "input"
    /\ mRes = NoResult
    /\ mRes2 = NoResult

StoreNext ==
    \/ DOMContentLoaded
    \/ addQuote
    \/ importFromJsonFile
    \/ addDemoServerData
    \/ InitialSyncFires
    \/ FetchSettles
    \/ JsonSettles
    \/ PushSettles
    \/ Tick

StoreSpec == StoreInit /\ [][StoreNext]_vars

-----------------------------------------------------------------------------
(* Export and import: every collection within the bounds is an initial     *)
(* state; it is exported, and the file is imported into this page or into  *)
(* a page opened on another slot.                                          *)

FileTexts == {<<"A", ".">>, <<"B", ".">>}
\* The records a collection holds: a built-in one, one added by the form,
\* a fetched one and an imported one.
FileRecords ==
    UNION {{ Quote(t, "Wisdom", NoId, NoStamp, NoSource),
             Quote(t, "Wisdom", LocalId(1), NoStamp + 1, "local"),
             Quote(t, "Wisdom", ServerId(2), NoStamp + 2, "server"),
             Quote(t, "Wisdom", ImportedId(1, 1), NoStamp + 1, "imported") } :
           t \in FileTexts}

FileInit ==
    /\ quotes \in SeqsUpTo(FileRecords, MaxFileLen)
    /\ stored = saveQuotes(quotes)
    /\ syncInProgress = FALSE
    /\ syncInterval = NoHandle
    /\ timers = {}
    /\ initialPending = FALSE
    /\ now = 1
    /\ adds = 0
    /\ cyc = [c \in 1..MaxPending |-> Free]
    /\ net = {}
    /\ page = "ready"
    /\ notice = NoNotice
    /\ file = NoFile
    /\ mLocal = <<>>
    /\ mRemote = <<>>
    /\ mPc = "input"
    /\ mRes = NoResult
    /\ mRes2 = NoResult

\* The page is opened where the slot holds something else: the script is
\* evaluated anew; the file written stays.
OpenElsewhere ==
    /\ page = "ready"
    /\ file.present
    /\ quotes' = DefaultQuotes
    /\ syncInProgress' = FALSE
    /\ syncInterval' = NoHandle
    /\ timers' = {}
    /\ initialPending' = FALSE
    /\ cyc' = [c \in 1..MaxPending |-> Free]
    /\ net' = {}
    /\ page' = "loading"
    /\ notice' = NoNotice
    /\ stored' \in InitialSlots
    /\ UNCHANGED <<now, adds, file, mergeVars>>

FileNext ==
    \/ exportToJsonFile
    \/ OpenElsewhere
    \/ DOMContentLoaded
    \/ importFromJsonFile

FileSpec == FileInit /\ [][FileNext]_vars

-----------------------------------------------------------------------------
(* What the claims speak of, stated on the snapshots and the results and   *)
(* not through the operators of the merge.                                 *)

KeyOf(q) == <<q.text, q.category>>
FoldedKeyOf(q) == <<q.text, toLowerCase(q.category)>>

Positions(s) == 1..Len(s)
DistinctKeys(s) ==
    \A i, j \in Positions(s) : i # j => KeyOf(s[i]) # KeyOf(s[j])
DistinctFoldedKeys(s) ==
    \A i, j \in Positions(s) : i # j => FoldedKeyOf(s[i]) # FoldedKeyOf(s[j])

Entries(log, type) == SelectSeq(log, LAMBDA e : e.type = type)
QuotesOf(log) == [k \in Positions(log) |-> log[k].quote]

\* The positions of the remote snapshot whose key a local record has.
RemoteMatches(l) == {j \in Positions(mRemote) : KeyOf(mRemote[j]) = KeyOf(l)}
HasLocalMatch(r) == \E i \in Positions(mLocal) : KeyOf(mLocal[i]) = KeyOf(r)

\* C5: a local and a remote record with equal text and categories that are
\* equal once lower-cased are one quotation: the remote record is not added,
\* and where its lastModified is strictly greater it takes the local slot,
\* with one 'updated' entry.  (Stated on snapshots that hold each quotation
\* once.)
C5_CaseInsensitiveMatch ==
    (mPc # "input" /\ DistinctFoldedKeys(mLocal) /\ DistinctFoldedKeys(mRemote)) =>
        \A i \in Positions(mLocal), j \in Positions(mRemote) :
            FoldedKeyOf(mLocal[i]) = FoldedKeyOf(mRemote[j]) =>
                /\ \A e \in Positions(mRes.conflictLog) :
                       ~(mRes.conflictLog[e].type = "added"
                         /\ mRes.conflictLog[e].quote = mRemote[j])
                /\ Len(mRes.mergedQuotes) >= i
                /\ mRemote[j].lastModified > mLocal[i].lastModified =>
                       /\ mRes.mergedQuotes[i] = mRemote[j]
                       /\ Cardinality({e \in Positions(mRes.conflictLog) :
                              mRes.conflictLog[e] =
                                  [type |-> "updated", quote |-> mRemote[j]]}) = 1

\* C6: a local record with a matching remote record (where several match,
\* the first of them, the one find returns) gives its slot to that remote
\* record, whole, exactly when the remote lastModified is strictly greater;
\* otherwise the slot keeps the local record.  The 'updated' entries are the
\* records that took a slot, one for each such slot and no other.
Replaced(i) ==
    /\ RemoteMatches(mLocal[i]) # {}
    /\ mRemote[Min(RemoteMatches(mLocal[i]))].lastModified > mLocal[i].lastModified
Matched(i) == RemoteMatches(mLocal[i]) # {}
ReplacedSlots == {i \in Positions(mLocal) : Replaced(i)}
RECURSIVE Winners(_)
Winners(i) ==
    IF i > Len(mLocal) THEN <<>>
    ELSE (IF Replaced(i) THEN <<mRemote[Min(RemoteMatches(mLocal[i]))]>> ELSE <<>>)
         \o Winners(i + 1)

C6_StrictlyNewerRemoteWins ==
    mPc # "input" =>
        /\ Len(mRes.mergedQuotes) >= Len(mLocal)
        /\ \A i \in Positions(mLocal) : Matched(i) =>
               mRes.mergedQuotes[i] =
                   IF Replaced(i) THEN mRemote[Min(RemoteMatches(mLocal[i]))]
                   ELSE mLocal[i]
        /\ QuotesOf(Entries(mRes.conflictLog, "updated")) = Winners(1)

C6_Witness ==
    /\ mPc = "merged"
    /\ \E i, k \in Positions(mLocal) :
           /\ Replaced(i)
           /\ mRes.mergedQuotes[i].id # mLocal[i].id
           /\ mRes.mergedQuotes[i].source = "server"
           /\ Matched(k) /\ ~Replaced(k)
           /\ mRemote[Min(RemoteMatches(mLocal[k]))].lastModified
                  = mLocal[k].lastModified
           /\ mRes.mergedQuotes[k] = mLocal[k]

\* C7: the records appended to the local ones are exactly the remote records
\* no local record has the key of, each once and in remote order; each has
\* exactly one 'added' entry, and there is no other 'added' entry.  So the
\* merge of no local record and one remote record is that record, with one
\* 'added' entry.
Unmatched == SelectSeq(mRemote, LAMBDA r : ~HasLocalMatch(r))

C7_UnmatchedRemoteIsAdded ==
    mPc # "input" =>
        /\ Len(mRes.mergedQuotes) = Len(mLocal) + Len(Unmatched)
        /\ SubSeq(mRes.mergedQuotes, Len(mLocal) + 1, Len(mRes.mergedQuotes))
               = Unmatched
        /\ QuotesOf(Entries(mRes.conflictLog, "added")) = Unmatched
        /\ (mLocal = <<>> /\ Len(mRemote) = 1) =>
               /\ mRes.mergedQuotes = mRemote
               /\ mRes.conflictLog = <<[type |-> "added", quote |-> mRemote[1]]>>

C7_Witness ==
    /\ mPc = "merged"
    /\ Len(mLocal) = 1
    /\ Len(mRemote) = 2
    /\ HasLocalMatch(mRemote[1])
    /\ ~HasLocalMatch(mRemote[2])
    /\ mRes.mergedQuotes[2] = mRemote[2]
    /\ Len(mRes.mergedQuotes) = 2
    /\ Len(Entries(mRes.conflictLog, "added")) = 1

\* C8 as claimed: merging the merged result with the same remote snapshot
\* again changes nothing and logs nothing, whatever the snapshots.
C8_IdempotentOnAnySnapshots ==
    mPc = "remerged" =>
        /\ mRes2.mergedQuotes = mRes.mergedQuotes
        /\ mRes2.conflictLog = <<>>

\* C8 as amended: merging the merged result with the same remote snapshot
\* again changes nothing and logs nothing, when no two records of the remote
\* snapshot have the same (text, category); the local snapshot may hold a
\* key several times.
C8_IdempotentOnDistinctRemoteKeys ==
    (mPc = "remerged" /\ DistinctKeys(mRemote)) =>
        /\ mRes2.mergedQuotes = mRes.mergedQuotes
        /\ mRes2.conflictLog = <<>>

C8_Witness ==
    /\ mPc = "remerged"
    /\ DistinctKeys(mRemote)
    /\ ~DistinctKeys(mLocal)
    /\ Len(Entries(mRes.conflictLog, "updated")) > 0
    /\ Len(Entries(mRes.conflictLog, "added")) > 0
    /\ mRes2.mergedQuotes = mRes.mergedQuotes

\* C21: the merge keeps the local order.  The merged sequence is as long as
\* the local snapshot and the 'added' entries together; each of its first
\* len(local) slots holds the local record of that slot or a remote record of
\* that record's (text, category); and the slots after them hold the remote
\* records no local record has the key of, in remote order.
C21_MergePreservesLocalOrder ==
    mPc # "input" =>
        LET merged == mRes.mergedQuotes
            added == Entries(mRes.conflictLog, "added")
        IN  /\ Len(merged) = Len(mLocal) + Len(added)
            /\ \A i \in Positions(mLocal) :
                   \/ merged[i] = mLocal[i]
                   \/ \E j \in RemoteMatches(mLocal[i]) : merged[i] = mRemote[j]
            /\ [k \in Positions(added) |-> merged[Len(mLocal) + k]] = Unmatched

C21_Witness ==
    /\ mPc = "merged"
    /\ Len(mLocal) = 2
    /\ Len(mRemote) = 2
    /\ Len(mRes.mergedQuotes) = 3
    /\ mRes.mergedQuotes[1] = mLocal[1]
    /\ mRes.mergedQuotes[2] = mRemote[1]
    /\ mRes.mergedQuotes[2] # mLocal[2]
    /\ mRes.mergedQuotes[3] = mRemote[2]

\* C22: in the change log every 'added' entry precedes every 'updated' entry;
\* the 'added' entries are those of the unmatched remote records in remote
\* order, the 'updated' entries those of the replaced slots in local order.
C22_AddedBeforeUpdated ==
    mPc # "input" =>
        LET log == mRes.conflictLog
        IN  /\ \A e, f \in Positions(log) :
                   (log[e].type = "added" /\ log[f].type = "updated") => e < f
            /\ log = [k \in Positions(Unmatched) |->
                          [type |-> "added", quote |-> Unmatched[k]]]
                      \o [k \in Positions(Winners(1)) |->
                             [type |-> "updated", quote |-> Winners(1)[k]]]

\* The added record is the second of the remote snapshot and the updating
\* record the first: the log is not in remote order.
C22_Witness ==
    /\ mPc = "merged"
    /\ Len(mRemote) = 2
    /\ mRemote[1] # mRemote[2]
    /\ mRes.conflictLog = <<[type |-> "added", quote |-> mRemote[2]],
                            [type |-> "updated", quote |-> mRemote[1]]>>

\* C27: when neither snapshot holds two records of one (text, category),
\* categories compared case-insensitively, the merged sequence holds no two
\* such records either.
C27_NoDuplicateKeysIntroduced ==
    (mPc # "input" /\ DistinctFoldedKeys(mLocal) /\ DistinctFoldedKeys(mRemote)) =>
        DistinctFoldedKeys(mRes.mergedQuotes)

-----------------------------------------------------------------------------
(* The sync cycle. *)

Slots == DOMAIN cyc
Suspended(c) == cyc[c].pc \in {"awaitFetch", "awaitJson", "awaitPush"}
Holders == {c \in Slots : cyc[c].held}
Posts == {r \in net : r.method = "POST"}
Gets == {r \in net : r.method = "GET"}
NotFromServer(q) == q.source # "server"

\* syncWithServer is called in this step, and slot c holds the invocation.
Called(c) == earlier[c].pc = "free" /\ cyc'[c].pc # "free"
Acquires(c) == ~cyc[c].held /\ cyc'[c].held
Trigger == manualSync \/ TimerFires \/ InitialSyncFires

\* C1: a call of syncWithServer made while syncInProgress is true returns at
\* once: it sends no request, shows no status, logs no step, and leaves the
\* quotes, the persisted slot, the guard and every other invocation as they
\* were.
C1_ReentrantCallIsNoOp ==
    [][\A c \in Slots : (syncInProgress /\ Called(c)) =>
            /\ cyc'[c] = NewCycle
            /\ \A d \in Slots \ {c} : cyc'[d] = earlier[d]
            /\ net' = net
            /\ quotes' = quotes
            /\ stored' = stored
            /\ syncInProgress' = syncInProgress]_vars

C1_Witness ==
    /\ syncInProgress
    /\ \E c, d \in Slots :
           /\ cyc[c].pc = "dropped"
           /\ cyc[d].pc = "awaitJson"
           /\ GetRequest(d) \in net
    /\ Cardinality(net) = 1

\* C2: at most one invocation is between acquiring the guard and releasing
\* it; an invocation acquires the guard only in a step that is a trigger
\* (manual, a timer, the delayed first sync) taken while no invocation
\* holds it, so never in the step in which another one ends; and a trigger
\* taken while one holds it starts nothing.
C2_AtMostOneCycle ==
    /\ [](Cardinality(Holders) <= 1)
    /\ [][/\ (\E c \in Slots : Acquires(c)) =>
                 (Trigger /\ Holders = {} /\ ~syncInProgress)
          /\ (Trigger /\ Holders # {}) =>
                 (\A c \in Slots : ~Acquires(c)) /\ net' = net]_vars

C2_Witness ==
    /\ Cardinality(timers) = 2
    /\ ~initialPending
    /\ Cardinality(Holders) = 1
    /\ \E c, d \in Slots :
           /\ cyc[c].pc = "dropped"
           /\ cyc[d].pc = "awaitPush"

\* C3: when no invocation of syncWithServer is under way (each has returned,
\* normally or by raising), the guard is released.
C3_GuardAlwaysReleased ==
    (\A c \in Slots : ~Suspended(c)) => syncInProgress = FALSE

\* C4: the steps an invocation has completed are, in this order, the fetch,
\* the merge, the commit and the sending of the push, each only after the
\* one before; a push is under way only for an invocation that completed its
\* commit; and the step that sends the push is one after which the GET is
\* answered and the collection and the persisted slot hold the merged quotes.
CycleOrder == <<"fetch", "merge", "commit", "push">>
C4_StepsInOrder ==
    /\ [](/\ \A c \in Slots :
                /\ Len(cyc[c].steps) <= Len(CycleOrder)
                /\ cyc[c].steps = SubSeq(CycleOrder, 1, Len(cyc[c].steps))
          /\ \A r \in Posts : cyc[r.cycle].steps = CycleOrder)
    /\ [][\A r \in Posts' \ Posts :
              /\ GetRequest(r.cycle) \in net /\ GetRequest(r.cycle) \notin net'
              /\ cyc[r.cycle].steps = <<>>
              /\ quotes' = cyc'[r.cycle].mergedQuotes
              /\ stored'.present
              /\ parsed(stored'.value) = quotes']_vars

C4_Witness ==
    \E r \in Posts :
        /\ cyc[r.cycle].steps = CycleOrder
        /\ quotes = cyc[r.cycle].mergedQuotes
        /\ parsed(stored.value) = quotes
        /\ Len(quotes) > Len(cyc[r.cycle].localQuotes)

\* C9: a push under way carries no record whose source is 'server', and
\* carries, in order, every record of the collection its cycle committed
\* whose source is not 'server'.
C9_PushCarriesLocalRecordsOnly ==
    \A r \in Posts :
        /\ \A i \in 1..Len(r.quotes) : r.quotes[i].source # "server"
        /\ r.quotes = SelectSeq(cyc[r.cycle].mergedQuotes, NotFromServer)

\* A push whose collection holds a record added by the merge and a local
\* slot that a server version took.
C9_Witness ==
    \E r \in Posts :
        LET c == r.cycle
        IN  /\ Len(r.quotes) > 0
            /\ Len(cyc[c].mergedQuotes) > Len(cyc[c].localQuotes)
            /\ \E i \in 1..Len(cyc[c].localQuotes) :
                   /\ cyc[c].localQuotes[i].source = "local"
                   /\ cyc[c].mergedQuotes[i].source = "server"

\* C10 as claimed: an invocation whose fetch failed (transport error, non-OK
\* response, undecodable or untransformable body) ends having shown 'server
\* unavailable'.
FetchFailed(c) == cyc[c].fetchFail \in {"transport", "http", "decode", "transform"}
C10_FailedFetchEndsUnavailable ==
    \A c \in Slots : FetchFailed(c) => cyc[c].status = "unavailable"

\* C10 as amended: an invocation whose fetch failed has returned, having
\* gone from the fetch to the 'server unavailable' notification with no
\* merge, commit or push; it shows 'server unavailable', unless that
\* notification itself raised, in which case the catch clause ran.
C10_FailedFetchIsSoft ==
    \A c \in Slots : FetchFailed(c) =>
        /\ cyc[c].pc = "done"
        /\ ~cyc[c].held
        /\ cyc[c].steps = <<"fetch">>
        /\ IF cyc[c].fault = "none"
           THEN cyc[c].status = "unavailable"
           ELSE cyc[c].fault = "status653" /\ cyc[c].status \in {"failed", "syncing"}

C10_Witness ==
    /\ ~syncInProgress
    /\ net = {}
    /\ \E c \in Slots :
           /\ cyc[c].fetchFail = "transform"
           /\ cyc[c].status = "unavailable"

EmptyFetch(c) == cyc[c].steps # <<>> /\ cyc[c].fetched = 0

\* C11: the step in which the fetch returns an empty sequence leaves the
\* quotes (those still lacking lastModified or source included) and the
\* persisted slot as they were, performs no merge and no commit, sends no
\* push, and ends the cycle with the guard released; and a step changes the
\* quotes or the persisted slot only if it is an addition by the user or
\* the step of a cycle whose fetch was not empty and whose merge was
\* performed.
C11_EmptyFetchChangesNothing ==
    /\ [][\A c \in Slots : (Suspended(c) /\ EmptyFetch(c)') =>
              /\ quotes' = quotes
              /\ stored' = stored
              /\ Posts' = Posts
              /\ cyc'[c].steps = <<"fetch">>
              /\ cyc'[c].pc = "done"
              /\ ~cyc'[c].held
              /\ syncInProgress' = FALSE]_vars
    /\ [][(quotes' # quotes \/ stored' # stored) =>
              \/ adds' # adds
              \/ \E c \in Slots :
                     /\ Suspended(c)
                     /\ cyc'[c].fetched > 0
                     /\ Len(cyc'[c].steps) >= 2
                     /\ cyc'[c].steps[2] = "merge"]_vars

C11_Witness ==
    /\ \E c \in Slots : EmptyFetch(c) /\ cyc[c].fetchFail = "none"
    /\ quotes = DefaultQuotes
    /\ stored = NoItem
    /\ ~syncInProgress

\* C12: the step in which the push fails (a response that is not ok, or a
\* transport error) leaves the quotes and the persisted slot, which holds
\* the committed collection, as they were; the cycle ends with the guard
\* released, and with the status its merge showed, which is not 'sync
\* failed', when nothing after the push raises.
PushFailed(c) == cyc[c].pushed \in {"http", "transport"}
TimersAsStartedAndStopped ==
    /\ startPeriodicSync =>
           /\ syncInterval' \notin timers
           /\ timers' = timers \cup {syncInterval'}
    /\ stopPeriodicSync =>
           /\ timers' = timers \ {syncInterval}
           /\ syncInterval' = NoHandle
    /\ TimerFires => timers' = timers /\ syncInterval' = syncInterval

\* C20 as claimed: a start adds an independent timer, a stop cancels only the
\* timer started last, and a start made when a stop came last (no handle is
\* held) leaves exactly one active timer.
C20_StartAfterStopLeavesOneTimer ==
    [][/\ TimersAsStartedAndStopped
       /\ (startPeriodicSync /\ syncInterval = NoHandle) =>
              Cardinality(timers') = 1]_vars

\* C20 as amended: a start adds an independent timer, a stop cancels only the
\* timer started last, and a start leaves exactly one active timer when no
\* timer is active; the handle held is that of an active timer, so a timer
\* whose handle a later start overwrote is cancelled by no stop.
C20_NoDeduplicationOfTimers ==
    /\ [](syncInterval # NoHandle => syncInterval \in timers)
    /\ [][/\ TimersAsStartedAndStopped
          /\ (startPeriodicSync /\ timers = {}) => Cardinality(timers') = 1
          /\ (stopPeriodicSync /\ Cardinality(timers) >= 2) => timers' # {}]_vars

\* Two starts and one stop have left a timer that fires and that no stop
\* cancels.
C20_Witness ==
    /\ timers # {}
    /\ syncInterval = NoHandle
    /\ ENABLED TimerFires

-----------------------------------------------------------------------------
(* The quotes, the persisted slot and the files. *)

Mirrors ==
    /\ stored.present
    /\ stored.value.wellFormed
    /\ stored.value.isArray
    /\ parsed(stored.value) = quotes
Keys(qs) == {KeyOf(qs[i]) : i \in Positions(qs)}
\* A valid element of an imported document: an object whose text and
\* category are non-empty strings.
ValidElement(e) ==
    /\ ~e.isNull
    /\ e.text.type = "string" /\ Len(e.text.v) > 0
    /\ e.category.type = "string" /\ e.category.v \notin {""}
ValidElements(doc) == SelectSeq(doc.elems, ValidElement)
\* A text or a category that is empty once its spaces are trimmed.
BlankInput(rawText, rawCategory) ==
    \/ \A i \in Positions(rawText) : rawText[i] = " "
    \/ rawCategory \in {"", " "}

\* C13: once the page is ready, no two quotes of the collection that have an
\* id have the same id.  (The claim also has every quote carry an id, which
\* the built-in quotes never do.)
C13_IdsAreDistinct ==
    page = "ready" =>
        \A i, j \in Positions(quotes) :
            (i # j /\ quotes[i].id # NoId) => quotes[i].id # quotes[j].id

\* C14: no step lowers the lastModified held in a slot of the collection:
\* the record a slot holds after a step, if it is not the one it held
\* before, has a lastModified that is not less.
C14_LastModifiedNeverDecreases ==
    [][page = "ready" =>
           \A i \in Positions(quotes) :
               (i <= Len(quotes') /\ quotes'[i] # quotes[i]) =>
                   quotes'[i].lastModified >= quotes[i].lastModified]_vars

FailedCommit == \E c \in Slots : cyc[c].fault = "save635"
C16_ImportKeepsValidAndCountsDropped ==
    [][\A doc \in Documents : (onload(doc) /\ doc.wellFormed /\ doc.isArray) =>
           LET kept == ValidElements(doc)
               dropped == Len(doc.elems) - Len(kept)
           IN  /\ Len(quotes') = Len(quotes) + Len(kept)
               /\ SubSeq(quotes', 1, Len(quotes)) = quotes
               /\ \A i \in Positions(kept) :
                      KeyOf(quotes'[Len(quotes) + i])
                          = <<kept[i].text.v, kept[i].category.v>>
               /\ dropped > 0 =>
                      \E k \in Positions(notice') :
                          notice'[k].what = "skipped" /\ notice'[k].n = dropped]_vars

\* C17: the file an export writes holds the collection, record by record;
\* importing that file into an empty collection yields records with the
\* same texts and categories, in which an id, a lastModified and a source
\* that the file holds are kept, and those it lacks are generated, the
\* source as 'imported'.
C17_ExportImportRoundTrip ==
    [][/\ exportToJsonFile =>
              /\ file'.present
              /\ file'.doc.wellFormed /\ file'.doc.isArray
              /\ parsed(file'.doc) = quotes
       /\ (file.present /\ quotes = <<>> /\ onload(file.doc)) =>
              LET exported == parsed(file.doc)
              IN  /\ Keys(quotes') = Keys(exported)
                  /\ Len(quotes') = Len(exported)
                  /\ \A i \in Positions(exported) :
                         /\ KeyOf(quotes'[i]) = KeyOf(exported[i])
                         /\ quotes'[i].id # NoId
                         /\ exported[i].id # NoId =>
                                quotes'[i].id = exported[i].id
                         /\ quotes'[i].lastModified =
                                IF exported[i].lastModified # NoStamp
                                THEN exported[i].lastModified ELSE now
                         /\ quotes'[i].source =
                                IF exported[i].source # NoSource
                                THEN exported[i].source ELSE "imported"]_vars

\* The file of a collection of a built-in and a fetched record has been
\* imported into an empty collection.
C17_Witness ==
    /\ file.present
    /\ Len(quotes) = 2
    /\ Len(notice) = 1
    /\ notice[1].what = "imported" /\ notice[1].n = Len(quotes)
    /\ LET exported == parsed(file.doc)
       IN  /\ Len(exported) = 2
           /\ exported[1].id = NoId /\ quotes[1].id # NoId
           /\ exported[2].id = ServerId(2) /\ quotes[2] = exported[2]

\* C18: addQuote with a text or a category that is empty once trimmed, and
\* the import of a document that does not parse, is no array or holds no
\* valid element, leave the quotes and the persisted slot as they were.
C18_ValidationErrorsChangeNothing ==
    [][/\ \A rawText \in UserTexts, rawCategory \in UserCategories :
              (addQuoteWith(rawText, rawCategory) /\ BlankInput(rawText, rawCategory))
                  => (quotes' = quotes /\ stored' = stored)
       /\ \A doc \in Documents :
              (onload(doc) /\ (~doc.wellFormed \/ ~doc.isArray \/ Len(ValidElements(doc)) = 0))
                  => (quotes' = quotes /\ stored' = stored)]_vars

C18_Witness ==
    /\ page = "ready"
    /\ notice = <<Message("error", "noValidQuotes", 0)>>
    /\ quotes = DefaultQuotes
    /\ stored = NoItem

\* C19: when the slot holds text that does not decode, the DOMContentLoaded
\* handler runs to its end (the page is ready and the first sync is
\* scheduled) and the quotes are the built-in ones, as when the slot is
\* absent.
C19_UndecodableSlotIsTreatedAsAbsent ==
    [][(DOMContentLoaded /\ stored.present /\ ~stored.value.wellFormed) =>
           /\ page' = "ready"
           /\ initialPending'
           /\ quotes' = DefaultQuotes]_vars

-----------------------------------------------------------------------------
(* The cycle and the collection. *)

Records(qs) == {qs[i] : i \in Positions(qs)}
\* The step in which invocation c, its fetch answered, replaces the
\* collection by the merged quotes (lines 631-632), and the one in which it
\* has saved them as well (line 635).
Replaces(c) ==
    /\ cyc[c].pc = "awaitJson"
    /\ \E k \in Positions(cyc'[c].steps) : cyc'[c].steps[k] = "merge"
Commits(c) ==
    /\ Replaces(c)
    /\ \E k \in Positions(cyc'[c].steps) : cyc'[c].steps[k] = "commit"

\* C23: a cycle removes no record.  In the step that replaces the
\* collection, every (text, category) of the local snapshot is a key of the
\* collection, and every fetched record whose key the snapshot does not
\* hold is in the collection; and where the step saves as well, the same
\* holds of the persisted slot.
C23_SyncNeverRemoves ==
    [][\A c \in Slots : Replaces(c) =>
           /\ cyc'[c].fetched > 0
           /\ Keys(cyc[c].localQuotes) \subseteq Keys(quotes')
           /\ \A r \in Records(cyc'[c].serverQuotes) :
                  KeyOf(r) \notin Keys(cyc[c].localQuotes) => r \in Records(quotes')
           /\ Commits(c) => Mirrors']_vars

\* A cycle that has committed: a record the user added before it was
\* replaced by the fetched record of its key, and a fetched record of a key
\* that was absent was appended.
C23_Witness ==
    \E c \in Slots :
        /\ cyc[c].pc = "awaitPush"
        /\ quotes = cyc[c].mergedQuotes
        /\ \E i \in Positions(cyc[c].localQuotes) :
               /\ cyc[c].localQuotes[i].source = "local"
               /\ quotes[i].source = "server"
               /\ KeyOf(quotes[i]) = KeyOf(cyc[c].localQuotes[i])
        /\ \E r \in Records(cyc[c].serverQuotes) :
               /\ KeyOf(r) \notin Keys(cyc[c].localQuotes)
               /\ r \in Records(quotes)

\* C24: no record goes into the merge without a lastModified and a source.
\* The snapshot an invocation takes holds the records of the collection in
\* order, each with the lastModified and the source it has, or, where it
\* has none, with the current time and 'local'; the fetched records have
\* both; and the step that replaces the collection leaves it with records
\* that all have both.
Stamped(q) == q.lastModified # NoStamp /\ q.source # NoSource
C24_NoRecordWithoutTimestamp ==
    /\ [](\A c \in Slots :
              /\ Suspended(c) => \A q \in Records(cyc[c].localQuotes) : Stamped(q)
              /\ \A q \in Records(cyc[c].serverQuotes) : Stamped(q))
    /\ [][\A c \in Slots :
              /\ (Acquires(c) /\ cyc'[c].pc = "awaitFetch") =>
                     /\ Len(cyc'[c].localQuotes) = Len(quotes)
                     /\ \A i \in Positions(quotes) :
                            LET q == quotes[i]
                                l == cyc'[c].localQuotes[i]
                            IN  /\ l.text = q.text /\ l.category = q.category
                                /\ l.id = q.id
                                /\ l.lastModified =
                                       IF q.lastModified = NoStamp THEN now
                                       ELSE q.lastModified
                                /\ l.source =
                                       IF q.source = NoSource THEN "local"
                                       ELSE q.source
              /\ Replaces(c) => \A q \in Records(quotes') : Stamped(q)]_vars

\* A snapshot just taken: a built-in quote got the current time and
\* 'local', a quote added at an earlier instant kept what it had.
C24_Witness ==
    \E c \in Slots :
        /\ cyc[c].pc = "awaitFetch"
        /\ Len(cyc[c].localQuotes) = Len(quotes)
        /\ \E i, j \in Positions(quotes) :
               /\ quotes[i].lastModified = NoStamp /\ quotes[i].source = NoSource
               /\ cyc[c].localQuotes[i].lastModified = now
               /\ cyc[c].localQuotes[i].source = "local"
               /\ quotes[j].lastModified \notin {NoStamp, now}
               /\ cyc[c].localQuotes[j] = quotes[j]

\* C25: given that every request is answered or fails, an invocation that
\* has set the guard is followed by a state in which the guard is released.
C25_EveryCycleReturnsToIdle == syncInProgress ~> ~syncInProgress

\* C26: a quote that addQuote or an import appended while an invocation was
\* waiting for its fetch (the records of the collection past the length of
\* the snapshot, the demo data apart) is not lost when the invocation
\* commits: its (text, category) is still a key of the collection and of the
\* persisted slot.
AppendedSince(c) ==
    {quotes[i] : i \in (Len(cyc[c].localQuotes) + 1)..Len(quotes)}
C26_NoLocalEditLost ==
    [][\A c \in Slots : Commits(c) =>
           \A q \in AppendedSince(c) :
               q.id.pfx # "server_demo" =>
                   /\ KeyOf(q) \in Keys(quotes')
                   /\ stored'.present
                   /\ KeyOf(q) \in Keys(parsed(stored'.value))]_vars

====
